---- MODULE Spec2Model ----
(***************************************************************************)
(* The packaging manifest setup.py of chisq_test_wrapper.                  *)
(*                                                                         *)
(* The manifest is a Python module of two statements: the import of        *)
(* distutils.core.setup (line 1) and one call of setup() whose keyword     *)
(* arguments are literals (lines 3-13).  The model follows the             *)
(* interpreter through one or more evaluations of that module and records  *)
(* the metadata each call declares.                                        *)
(*                                                                         *)
(* A Python str is modelled as the sequence of its characters, '' as <<>>, *)
(* a list as a sequence, and the keyword arguments of a call as a function *)
(* from keyword to value.                                                  *)
(***************************************************************************)
EXTENDS Integers, Sequences, FiniteSets, TLC

VARIABLES
    pc,            \* position of the interpreter in setup.py
    run,           \* number of the current evaluation of setup.py (1, 2, ...)
    distribution,  \* metadata most recently declared to the packaging tool
    declared       \* metadata declared by each evaluation of setup.py, in order

vars == <<pc, run, distribution, declared>>

----------------------------------------------------------------------------
(* Bounds of the model. *)

\* Evaluations of the manifest in one interpreter.
MaxRuns == 3

\* Longest package or dependency list of a manifest evaluated earlier.
MaxPriorLen == 2

----------------------------------------------------------------------------
(* Names that occur in the manifest's lists. *)

\* 'statsmodels'
statsmodels ==
    <<"s", "t", "a", "t", "s", "m", "o", "d", "e", "l", "s">>

\* 'scipy'
scipy ==
    <<"s", "c", "i", "p", "y">>

----------------------------------------------------------------------------
(* The keyword arguments of the setup() call, one per line of setup.py. *)

\* name='chisq_test_wrapper'
name ==
    <<"c", "h", "i", "s", "q", "_", "t", "e", "s", "t", "_", "w", "r", "a", "p", "p",
      "e", "r">>

\* Variant: a version number is filled in.
version_set ==
    <<"0", ".", "1">>

\* version=''
version ==
    <<>>

\* Variant: the project's own package is the one listed.
packages_own ==
    <<name>>

\* packages=['statsmodels', 'scipy']
packages ==
    <<statsmodels, scipy>>

\* url='https://github.com/neuhofmo/chisq_test_wrapper'
url ==
    <<"h", "t", "t", "p", "s", ":", "/", "/", "g", "i", "t", "h", "u", "b", ".", "c",
      "o", "m", "/", "n", "e", "u", "h", "o", "f", "m", "o", "/", "c", "h", "i", "s",
      "q", "_", "t", "e", "s", "t", "_", "w", "r", "a", "p", "p", "e", "r">>

\* license=''
license ==
    <<>>

\* author=''
author ==
    <<>>

\* author_email=''
author_email ==
    <<>>

\* Variant: two letters of the description are transposed.
description_typo ==
    <<"A", " ", "f", "r", "e", "i", "n", "d", "l", "y", ",", " ", "a", "u", "t", "o",
      "m", "a", "t", "e", "d", " ", "c", "h", "i", "-", "s", "q", "u", "a", "r", "e",
      " ", "t", "e", "s", "t", " ", "f", "u", "n", "c", "t", "i", "o", "n", " ", "w",
      "h", "i", "c", "h", " ", "t", "a", "k", "e", "s", " ", "c", "a", "r", "e", " ",
      "o", "f", " ", "p", "o", "s", "t", "-", "h", "o", "c", " ", "t", "e", "s", "t",
      "s", " ", "a", "n", "d", " ", "m", "u", "l", "t", "i", "p", "l", "e", " ", "c",
      "o", "m", "p", "a", "r", "i", "s", "o", "n", "s">>

\* description='A friendly, automated chi-square test function which takes
\* care of post-hoc tests and multiple comparisons'
description ==
    <<"A", " ", "f", "r", "i", "e", "n", "d", "l", "y", ",", " ", "a", "u", "t", "o",
      "m", "a", "t", "e", "d", " ", "c", "h", "i", "-", "s", "q", "u", "a", "r", "e",
      " ", "t", "e", "s", "t", " ", "f", "u", "n", "c", "t", "i", "o", "n", " ", "w",
      "h", "i", "c", "h", " ", "t", "a", "k", "e", "s", " ", "c", "a", "r", "e", " ",
      "o", "f", " ", "p", "o", "s", "t", "-", "h", "o", "c", " ", "t", "e", "s", "t",
      "s", " ", "a", "n", "d", " ", "m", "u", "l", "t", "i", "p", "l", "e", " ", "c",
      "o", "m", "p", "a", "r", "i", "s", "o", "n", "s">>

\* Variants: a third dependency is listed; the two are listed in the other order.
requires_three ==
    <<statsmodels, scipy, <<"n", "u", "m", "p", "y">> >>

requires_swapped ==
    <<scipy, statsmodels>>

\* requires=['statsmodels', 'scipy']
requires ==
    <<statsmodels, scipy>>

\* The keyword arguments as the call passes them.
SetupAttrs ==
    [ name         |-> name,
      version      |-> version,
      packages     |-> packages,
      url          |-> url,
      license      |-> license,
      author       |-> author,
      author_email |-> author_email,
      description  |-> description,
      requires     |-> requires ]

----------------------------------------------------------------------------
(* The state in which an evaluation of the manifest may start. *)

\* No setup() call has been made in this interpreter.
NoDistribution == [k \in {} |-> <<>>]

PriorNames == {statsmodels, scipy, <<"n", "u", "m", "p", "y">>}

PriorLists ==
    UNION {[1..n -> PriorNames] : n \in 0..MaxPriorLen}

\* Metadata of some other manifest evaluated earlier in the same interpreter.
PriorAttrs ==
    LET base ==
            [ name         : {name, <<"o", "t", "h", "e", "r">>},
              version      : {<<>>, <<"1">>},
              packages     : PriorLists,
              url          : {<<>>},
              license      : {<<>>},
              author       : {<<>>},
              author_email : {<<>>},
              description  : {<<>>, description},
              requires     : PriorLists ]
    IN  base \cup {b @@ [install_requires |-> b.requires] : b \in base}

----------------------------------------------------------------------------
(* The evaluation of setup.py. *)

Init ==
    /\ pc = "import"
    /\ run = 1
    /\ distribution \in {NoDistribution} \cup PriorAttrs
    /\ declared = <<>>

\* Line 1: from distutils.core import setup
Import ==
    /\ pc = "import"
    /\ pc' = "setup"
    /\ UNCHANGED <<run, distribution, declared>>

\* Variant of the call in which the dependency list outlives an evaluation and
\* is extended by the next one.
Setup_accumulating ==
    /\ pc = "setup"
    /\ LET deps == IF declared = <<>>
                   THEN requires
                   ELSE declared[Len(declared)].requires \o requires
           attrs == [SetupAttrs EXCEPT !.requires = deps]
       IN  /\ distribution' = attrs
           /\ declared' = Append(declared, attrs)
    /\ pc' = "done"
    /\ UNCHANGED run

\* Variant of the call in which setup() is called a second time.
Setup_twice ==
    /\ pc = "setup"
    /\ distribution' = SetupAttrs
    /\ declared' = Append(Append(declared, SetupAttrs), SetupAttrs)
    /\ pc' = "done"
    /\ UNCHANGED run

\* Lines 3-13: setup(name=..., ..., requires=[...])
Setup ==
    /\ pc = "setup"
    /\ distribution' = SetupAttrs
    /\ declared' = Append(declared, SetupAttrs)
    /\ pc' = "done"
    /\ UNCHANGED run

\* The packaging tool evaluates the manifest again.
Reparse ==
    /\ pc = "done"
    /\ run < MaxRuns
    /\ run' = run + 1
    /\ pc' = "import"
    /\ UNCHANGED <<distribution, declared>>

Next ==
    \/ Import
    \/ Setup
    \/ Reparse

Spec == Init /\ [][Next]_vars

\* The interpreter runs the statements of the module one after the other.
FairSpec == Spec /\ WF_vars(Import) /\ WF_vars(Setup)

TypeOK ==
    /\ pc \in {"import", "setup", "done"}
    /\ run \in 1..MaxRuns
    /\ Len(declared) <= MaxRuns

----------------------------------------------------------------------------
(* Properties of the manifest.  The values they expect are written out     *)
(* here, apart from the literals of the model above.                       *)

ExpectedName ==
    <<"c", "h", "i", "s", "q", "_", "t", "e", "s", "t", "_", "w", "r", "a", "p", "p",
      "e", "r">>

ExpectedStatsmodels ==
    <<"s", "t", "a", "t", "s", "m", "o", "d", "e", "l", "s">>

ExpectedScipy ==
    <<"s", "c", "i", "p", "y">>

\* The purpose string as the specification quotes it.
PurposeString ==
    <<"a", " ", "f", "r", "i", "e", "n", "d", "l", "y", ",", " ", "a", "u", "t", "o",
      "m", "a", "t", "e", "d", " ", "c", "h", "i", "-", "s", "q", "u", "a", "r", "e",
      " ", "t", "e", "s", "t", " ", "f", "u", "n", "c", "t", "i", "o", "n", " ", "w",
      "h", "i", "c", "h", " ", "t", "a", "k", "e", "s", " ", "c", "a", "r", "e", " ",
      "o", "f", " ", "p", "o", "s", "t", "-", "h", "o", "c", " ", "t", "e", "s", "t",
      "s", " ", "a", "n", "d", " ", "m", "u", "l", "t", "i", "p", "l", "e", " ", "c",
      "o", "m", "p", "a", "r", "i", "s", "o", "n", "s", ".">>

\* Keywords of setup() that declare dependencies.
DependencyKeywords ==
    {"requires", "install_requires", "setup_requires", "tests_require",
     "extras_require"}

Elements(list) == {list[i] : i \in 1..Len(list)}

LowerCase == <<"a", "b", "c", "d", "e", "f", "g", "h", "i", "j", "k", "l", "m",
               "n", "o", "p", "q", "r", "s", "t", "u", "v", "w", "x", "y", "z">>

UpperCase == <<"A", "B", "C", "D", "E", "F", "G", "H", "I", "J", "K", "L", "M",
               "N", "O", "P", "Q", "R", "S", "T", "U", "V", "W", "X", "Y", "Z">>

Capital(c) ==
    IF \E i \in 1..Len(LowerCase) : LowerCase[i] = c
    THEN UpperCase[CHOOSE i \in 1..Len(LowerCase) : LowerCase[i] = c]
    ELSE c

\* The manifest has been evaluated: its setup() call has returned.
Evaluated == pc = "done"

\* C1: once the manifest is evaluated, its dependency list 'requires' has
\* exactly two entries, 'statsmodels' and 'scipy', which are distinct, and
\* 'requires' is the only dependency keyword the manifest passes.
C1_TwoDependencies ==
    Evaluated =>
        /\ Len(distribution.requires) = 2
        /\ Elements(distribution.requires) = {ExpectedStatsmodels, ExpectedScipy}
        /\ distribution.requires[1] # distribution.requires[2]
        /\ DOMAIN distribution \cap DependencyKeywords = {"requires"}

C1_Witness ==
    /\ Evaluated
    /\ Cardinality(Elements(distribution.requires)) = 2
    /\ "requires" \in DOMAIN distribution

\* C2, as stated: once the manifest is evaluated, its description is
\* non-empty and equals the purpose string, character by character.
C2_DescriptionIsPurposeString ==
    Evaluated =>
        /\ Len(distribution.description) > 0
        /\ distribution.description = PurposeString

\* C2, amended: once the manifest is evaluated, its description is non-empty
\* and is the purpose string with its first letter capitalised and its final
\* full stop left out.
C2_DescriptionUpToCaseAndStop ==
    Evaluated =>
        LET d == distribution.description
        IN  /\ Len(d) > 0
            /\ Len(d) = Len(PurposeString) - 1
            /\ PurposeString[Len(PurposeString)] = "."
            /\ d[1] = Capital(PurposeString[1])
            /\ d[1] # PurposeString[1]
            /\ \A i \in 2..Len(d) : d[i] = PurposeString[i]

C2_Witness ==
    /\ Evaluated
    /\ Len(distribution.description) > 0
    /\ distribution.description # PurposeString

\* C3: every evaluation of the manifest declares the same metadata as every
\* other, whatever state the first one started in, and an evaluation leaves
\* the metadata declared by the earlier ones as it was.
C3_Idempotent ==
    /\ [](\A i, j \in 1..Len(declared) : declared[i] = declared[j])
    /\ [](Evaluated => distribution = declared[1])
    /\ [][\A i \in 1..Len(declared) :
             /\ i <= Len(declared')
             /\ declared'[i] = declared[i]]_vars

C3_Witness ==
    /\ Evaluated
    /\ run >= 2
    /\ Len(declared) >= 2
    /\ declared[2] = declared[1]

\* C4: once the manifest is evaluated, the declared name is
\* 'chisq_test_wrapper', the url and the description are non-empty, and
\* version, license, author and author_email are the empty string.
C4_MetadataFields ==
    Evaluated =>
        /\ distribution.name = ExpectedName
        /\ Len(distribution.name) > 0
        /\ Len(distribution.url) > 0
        /\ Len(distribution.description) > 0
        /\ distribution.version = <<>>
        /\ distribution.license = <<>>
        /\ distribution.author = <<>>
        /\ distribution.author_email = <<>>

C4_Witness ==
    /\ Evaluated
    /\ distribution.version = <<>>
    /\ distribution.name # <<>>

\* C5: once the manifest is evaluated, 'packages' and 'requires' hold the
\* same names in the same order, 'statsmodels' then 'scipy'.
C5_RequiresDuplicatesPackages ==
    Evaluated =>
        /\ distribution.requires = distribution.packages
        /\ distribution.packages = <<ExpectedStatsmodels, ExpectedScipy>>

C5_Witness ==
    /\ Evaluated
    /\ Len(distribution.packages) = 2
    /\ distribution.requires[1] = distribution.packages[1]

C8_OnlyExternalPackages ==
    Evaluated =>
        /\ Elements(distribution.packages) = {ExpectedStatsmodels, ExpectedScipy}
        /\ distribution.name \notin Elements(distribution.packages)
        /\ ExpectedName \notin Elements(distribution.packages)

C8_Witness ==
    /\ Evaluated
    /\ distribution.name = ExpectedName
    /\ Elements(distribution.packages) # {}

====
